---------------------------- MODULE Spec2Model ----------------------------
(***************************************************************************)
(* A model of the SIP2 gateway of evergreen-universe-rs (sip2-server):     *)
(*   - the Dispatcher (server.rs): thread pool, admission control, the     *)
(*     accept/drain loop, the shutdown flag and pool.join();               *)
(*   - the Session worker loop (session.rs);                               *)
(*   - the Payment Engine (payment.rs): handle_payment and the two         *)
(*     allocation routines.                                                *)
(*                                                                         *)
(* Two specifications share the variables:                                 *)
(*   Spec     the gateway (Dispatcher, pool, Monitor, Sessions);           *)
(*   PaySpec  one fee-paid request handled by handle_payment, for every    *)
(*            backend transaction list and request drawn from the bounds.  *)
(***************************************************************************)
EXTENDS Integers, Sequences, FiniteSets, TLC

(***************************************************************************)
(* Bounds of the model.                                                    *)
(***************************************************************************)
\* sip_config.max_clients(): the pool size and the admission cap.
MaxClients == 3
\* Number of inbound connection attempts the model follows (sesid values).
MaxConn == 4
\* Number of MonitorEvents that may sit in the channel.
MaxEvents == 1
\* Longest backend transaction list.
MaxXacts == 3

VARIABLES
    pc_srv,        \* where Server::serve is: new, accepting, joining, returned, panicked
    sesid,         \* Server.sesid
    shutdown,      \* Server.shutdown, the shared AtomicBool
    from_monitor,  \* the mpsc channel Monitor -> Server (events in flight)
    pool_queue,    \* jobs handed to the ThreadPool and not yet picked up
    monitor,       \* the Monitor job: none, queued, running, exited
    ses_pc,        \* per connection: what became of it / where its Session is
    ses_shutdown,  \* Session.shutdown, the field of each Session
    mbts,          \* backend: the billable transactions, in backend order
    pay,           \* the fee-paid request in hand and what handle_payment made of it
    ses,           \* one Session seen from inside: its fields and where start() is
    call,          \* one backend call of a Session: the editor's token and the call's fate
    accounts,      \* Server.sip_config: the usernames of the account table
    note,          \* apply_payments: the register login given and the note made of it
    param,         \* ParamCount::matches: the arguments of a call and its result
    react          \* Processor::react: the event group, the reactor and where react is

srvVars == <<pc_srv, sesid, shutdown, from_monitor, pool_queue, monitor,
             ses_pc, ses_shutdown, accounts>>
payVars == <<mbts, pay>>
sesVars == <<ses, call>>
libVars == <<note, param, react>>
\* What the Dispatcher, the pool and the workers of the gateway leave alone.
otherVars == <<payVars, sesVars, libVars, accounts>>
vars == <<pc_srv, sesid, shutdown, from_monitor, pool_queue, monitor,
          ses_pc, ses_shutdown, mbts, pay, ses, call, accounts, note, param,
          react>>

Conns == 1..MaxConn

\* The usernames of the SIP accounts of the configuration.
Users == {"sip-user", "sip-user2"}

\* The job id of the Monitor in the pool queue (sessions use their sesid).
MonitorJob == 0

\* A Session whose closure is running on a pool thread.
Running == {"init", "recv", "timeout", "handling"}
\* A Session spawned by dispatch and not yet finished.
Live == Running \cup {"queued"}
\* A Session whose closure has returned.
Finished == {"closed", "failed"}

MonitorEvents == {"AddAccount", "DisableAccount", "Shutdown"}

(***************************************************************************)
(* The ThreadPool's counters, as dispatch reads them.                      *)
(***************************************************************************)
active_count ==
    Cardinality({s \in Conns : ses_pc[s] \in Running})
        + (IF monitor = "running" THEN 1 ELSE 0)

queued_count == Len(pool_queue)

LiveSessions == {s \in Conns : ses_pc[s] \in Live}

(***************************************************************************)
(* Server::new                                                             *)
(***************************************************************************)
ServerNew ==
    /\ pc_srv = "new"
    /\ sesid = 0
    /\ shutdown = FALSE
    /\ from_monitor = <<>>
    /\ pool_queue = <<>>
    /\ monitor = "none"
    /\ ses_pc = [s \in Conns |-> "unused"]
    /\ ses_shutdown = [s \in Conns |-> FALSE]
    /\ accounts = Users

\* Senders of the channel that are alive: the Server keeps from_monitor_tx
\* for its whole life, the Monitor holds a clone while it exists.
SenderCount == 1 + (IF monitor \in {"queued", "running"} THEN 1 ELSE 0)


(***************************************************************************)
(* Server::serve, up to the accept loop: the pool is created, the Monitor  *)
(* is handed to it as its first job, and the listener is bound (expect()   *)
(* panics when the bind fails).                                            *)
(***************************************************************************)
ServeStart(bound) ==
    /\ pc_srv = "new"
    /\ monitor' = "queued"
    /\ pool_queue' = Append(pool_queue, MonitorJob)
    /\ pc_srv' = IF bound THEN "accepting" ELSE "panicked"
    /\ UNCHANGED <<otherVars, sesid, shutdown, from_monitor, ses_pc, ses_shutdown>>

(***************************************************************************)
(* Server::dispatch for the connection with session id s: reject when     *)
(* active + queued + 1 >= max_clients, otherwise hand a Session to the     *)
(* pool.                                                                   *)
(***************************************************************************)
DispatchNoCap(s) ==
    /\ ses_pc' = [ses_pc EXCEPT ![s] = "queued"]
    /\ pool_queue' = Append(pool_queue, s)

Dispatch(s) ==
    LET threads == active_count + queued_count + 1
        maxcon  == MaxClients
    IN  IF threads >= maxcon
        THEN /\ ses_pc' = [ses_pc EXCEPT ![s] = "rejected"]
             /\ pool_queue' = pool_queue
        ELSE /\ ses_pc' = [ses_pc EXCEPT ![s] = "queued"]
             /\ pool_queue' = Append(pool_queue, s)

(***************************************************************************)
(* Server::process_monitor_events.  try_recv: an event, Empty, or          *)
(* Disconnected (no Sender left).  Every arm of the match on the event is  *)
(* todo!(), so a drained event panics the Dispatcher.                      *)
(***************************************************************************)
DrainPanics == from_monitor # <<>>

ProcessMonitorEventsClears ==
    IF from_monitor # <<>>
    THEN /\ from_monitor' = Tail(from_monitor)
         /\ shutdown' = shutdown
    ELSE /\ shutdown' = (SenderCount = 0)
         /\ from_monitor' = from_monitor

ProcessMonitorEvents ==
    IF from_monitor # <<>>
    THEN /\ from_monitor' = Tail(from_monitor)
         /\ shutdown' = shutdown
    ELSE IF SenderCount = 0
    THEN /\ shutdown' = TRUE
         /\ from_monitor' = from_monitor
    ELSE /\ shutdown' = shutdown
         /\ from_monitor' = from_monitor

(***************************************************************************)
(* One turn of the accept loop of Server::serve: the listener yields a     *)
(* connection or an accept error, next_sesid, dispatch, drain, and the     *)
(* test of the shutdown flag that ends the loop.                           *)
(***************************************************************************)
Accept(stream_ok) ==
    /\ pc_srv = "accepting"
    /\ sesid < MaxConn
    /\ sesid' = sesid + 1
    /\ IF stream_ok
       THEN Dispatch(sesid + 1)
       ELSE /\ ses_pc' = [ses_pc EXCEPT ![sesid + 1] = "accepterr"]
            /\ pool_queue' = pool_queue
    /\ ProcessMonitorEvents
    /\ pc_srv' = IF DrainPanics THEN "panicked"
                 ELSE IF shutdown' THEN "joining"
                 ELSE "accepting"
    /\ UNCHANGED <<otherVars, monitor, ses_shutdown>>

(***************************************************************************)
(* pool.join() and the return of serve(): join blocks while the pool has   *)
(* an active or a queued job.                                              *)
(***************************************************************************)
ServeJoinNoWait ==
    /\ pc_srv = "joining"
    /\ pc_srv' = "returned"
    /\ UNCHANGED <<otherVars, sesid, shutdown, from_monitor, pool_queue, monitor,
                   ses_pc, ses_shutdown>>

ServeJoin ==
    /\ pc_srv = "joining"
    /\ active_count = 0
    /\ queued_count = 0
    /\ pc_srv' = "returned"
    /\ UNCHANGED <<otherVars, sesid, shutdown, from_monitor, pool_queue, monitor,
                   ses_pc, ses_shutdown>>

(***************************************************************************)
(* A pool thread takes the oldest queued job: ThreadPool::new(max_clients) *)
(* runs at most max_clients jobs at a time.                                *)
(***************************************************************************)
PoolStart ==
    /\ pool_queue # <<>>
    /\ active_count < MaxClients
    /\ pool_queue' = Tail(pool_queue)
    /\ IF Head(pool_queue) = MonitorJob
       THEN /\ monitor' = "running"
            /\ UNCHANGED ses_pc
       ELSE /\ ses_pc' = [ses_pc EXCEPT ![Head(pool_queue)] = "init"]
            /\ UNCHANGED monitor
    /\ UNCHANGED <<otherVars, pc_srv, sesid, shutdown, from_monitor, ses_shutdown>>

(***************************************************************************)
(* The Monitor worker (super::monitor).  It is given a Sender of the       *)
(* channel and a clone of the shutdown flag: it sends MonitorEvents, and   *)
(* an administrative shutdown is a direct store into the flag.             *)
(***************************************************************************)
MonitorSend(ev) ==
    /\ monitor = "running"
    /\ Len(from_monitor) < MaxEvents
    /\ from_monitor' = Append(from_monitor, ev)
    /\ UNCHANGED <<otherVars, pc_srv, sesid, shutdown, pool_queue, monitor, ses_pc,
                   ses_shutdown>>

MonitorSetShutdown ==
    /\ monitor = "running"
    /\ shutdown = FALSE
    /\ shutdown' = TRUE
    /\ UNCHANGED <<otherVars, pc_srv, sesid, from_monitor, pool_queue, monitor, ses_pc,
                   ses_shutdown>>

MonitorExit ==
    /\ monitor = "running"
    /\ monitor' = "exited"
    /\ UNCHANGED <<otherVars, pc_srv, sesid, shutdown, from_monitor, pool_queue, ses_pc,
                   ses_shutdown>>

(***************************************************************************)
(* Session::run, up to the call of start(): peer_addr and the backend      *)
(* connection may fail, and then the worker returns at once.  The Session  *)
(* is built with shutdown: false.                                          *)
(***************************************************************************)
SessionRun(s, ok) ==
    /\ ses_pc[s] = "init"
    /\ ses_pc' = [ses_pc EXCEPT ![s] = IF ok THEN "recv" ELSE "failed"]
    /\ ses_shutdown' = [ses_shutdown EXCEPT ![s] = FALSE]
    /\ UNCHANGED <<otherVars, pc_srv, sesid, shutdown, from_monitor, pool_queue, monitor>>

(***************************************************************************)
(* Session::start, the main loop.  recv_with_timeout gives a request, a    *)
(* timeout (None) or an I/O error.                                         *)
(***************************************************************************)
\* recv_with_timeout returned None.
RecvTimeout(s) ==
    /\ ses_pc[s] = "recv"
    /\ ses_pc' = [ses_pc EXCEPT ![s] = "timeout"]
    /\ UNCHANGED <<otherVars, pc_srv, sesid, shutdown, from_monitor, pool_queue, monitor,
                   ses_shutdown>>

\* The test made on a timeout: `if self.shutdown { break; }`, then
\* disconnect; otherwise back to recv.
CheckShutdown(s) ==
    /\ ses_pc[s] = "timeout"
    /\ ses_pc' = [ses_pc EXCEPT ![s] =
                    IF ses_shutdown[s] THEN "closed" ELSE "recv"]
    /\ UNCHANGED <<otherVars, pc_srv, sesid, shutdown, from_monitor, pool_queue, monitor,
                   ses_shutdown>>

\* recv_with_timeout returned a request.
RecvRequest(s) ==
    /\ ses_pc[s] = "recv"
    /\ ses_pc' = [ses_pc EXCEPT ![s] = "handling"]
    /\ UNCHANGED <<otherVars, pc_srv, sesid, shutdown, from_monitor, pool_queue, monitor,
                   ses_shutdown>>

\* handle_sip_request and send: both Ok and the loop goes on, or an Err
\* that `?` turns into the return of start().
Respond(s, ok) ==
    /\ ses_pc[s] = "handling"
    /\ ses_pc' = [ses_pc EXCEPT ![s] = IF ok THEN "recv" ELSE "failed"]
    /\ UNCHANGED <<otherVars, pc_srv, sesid, shutdown, from_monitor, pool_queue, monitor,
                   ses_shutdown>>

\* recv_with_timeout returned an error: start() returns Err.
RecvError(s) ==
    /\ ses_pc[s] = "recv"
    /\ ses_pc' = [ses_pc EXCEPT ![s] = "failed"]
    /\ UNCHANGED <<otherVars, pc_srv, sesid, shutdown, from_monitor, pool_queue, monitor,
                   ses_shutdown>>

(***************************************************************************)
(* The gateway.                                                            *)
(***************************************************************************)
NoPayment == [phase |-> "none"]

\* No Session is looked into, no backend call is followed.
NoSession == [pc |-> "none"]
NoCall == [phase |-> "none"]

\* No note is being made, no parameter count is being matched.
NoNote == [phase |-> "none"]
NoParam == [phase |-> "none"]

\* No event group at hand.
NoReact == [phase |-> "none"]

Init ==
    /\ ServerNew
    /\ mbts = <<>>
    /\ pay = NoPayment
    /\ ses = NoSession
    /\ call = NoCall
    /\ note = NoNote
    /\ param = NoParam
    /\ react = NoReact

Next ==
    \/ \E bound \in BOOLEAN : ServeStart(bound)
    \/ \E stream_ok \in BOOLEAN : Accept(stream_ok)
    \/ ServeJoin
    \/ PoolStart
    \/ \E ev \in MonitorEvents : MonitorSend(ev)
    \/ MonitorSetShutdown
    \/ MonitorExit
    \/ \E s \in Conns, ok \in BOOLEAN : SessionRun(s, ok)
    \/ \E s \in Conns : RecvTimeout(s)
    \/ \E s \in Conns : CheckShutdown(s)
    \/ \E s \in Conns : RecvRequest(s)
    \/ \E s \in Conns, ok \in BOOLEAN : Respond(s, ok)
    \/ \E s \in Conns : RecvError(s)

Spec == Init /\ [][Next]_vars

(***************************************************************************)
(* The gateway with the progress its own threads make: the pool starts     *)
(* queued jobs, a worker goes through Session::run, a receive without      *)
(* input times out after SIP_RECV_TIMEOUT and the timeout test is made, a  *)
(* request in hand is answered (its backend call completes), and join and  *)
(* return happen once the pool is idle.  Inbound connections, terminal     *)
(* messages and the Monitor's doings are not promised.                     *)
(***************************************************************************)
Progress ==
    /\ WF_vars(\E bound \in BOOLEAN : ServeStart(bound))
    /\ WF_vars(ServeJoin)
    /\ WF_vars(PoolStart)
    /\ \A s \in Conns :
           /\ WF_vars(\E ok \in BOOLEAN : SessionRun(s, ok))
           /\ WF_vars(RecvTimeout(s))
           /\ WF_vars(CheckShutdown(s))
           /\ WF_vars(\E ok \in BOOLEAN : Respond(s, ok))

LiveSpec == Init /\ [][Next]_vars /\ Progress

(***************************************************************************)
(* The Payment Engine (payment.rs).                                        *)
(*                                                                         *)
(* Amounts are f64 dollars in the code.  Here an amount is the integer     *)
(* number of 1/10000 dollar (Dollar units to the dollar), which keeps the  *)
(* arithmetic of compile_multi_xacts exact for balances in whole cents.    *)
(***************************************************************************)
\* The literal 100.00 of compile_multi_xacts.
Hundred == 100
Dollar == Hundred * Hundred
Cent == Dollar \div Hundred

\* Users with a card; a request may also carry a barcode that matches no card.
Patrons == 1..2
Barcodes == 0..2

Balances == {-2 * Dollar, 0, 3 * Dollar, 5 * Dollar, 10 * Dollar}

\* A row of mbts: the owning user and the balance owed; its id is its place
\* in the list.
XactRows ==
    {[usr |-> 1, balance_owed |-> b] : b \in Balances}
        \cup {[usr |-> 2, balance_owed |-> 5 * Dollar]}

BoundedSeq(S, n) == UNION {[1..k -> S] : k \in 0..n}

\* Tendered amounts (field BV).
Amounts == {5 * Dollar - Cent, 5 * Dollar, 5 * Dollar + Cent,
            7 * Dollar, 10 * Dollar}

\* Field CG: absent, not a number, or a transaction id.
XactIds == 1..(MaxXacts + 1)
CGValues ==
    {[kind |-> "absent", id |-> 0], [kind |-> "invalid", id |-> 0]}
        \cup {[kind |-> "id", id |-> i] : i \in XactIds}

Requests == [patron_barcode : Barcodes, pay_amount : Amounts, cg : CGValues]

\* What may go wrong outside the engine: the auth token cannot be set, a
\* required field is missing or the amount is no number, the card search
\* fails, the fetch of the transaction(s) fails.
Faults == {"none", "authtoken", "field", "card_search", "xact_fetch"}

\* editor.retrieve("mbts", xact_id)
Retrieve(xact_id) ==
    [id |-> xact_id, usr |-> mbts[xact_id].usr,
     balance_owed |-> mbts[xact_id].balance_owed]

\* get_patron_xacts: the patron's transactions, in backend order.
get_patron_xacts(usr) ==
    SelectSeq([i \in DOMAIN mbts |-> Retrieve(i)], LAMBDA x : x.usr = usr)

(***************************************************************************)
(* compile_one_xact                                                        *)
(***************************************************************************)
compile_one_xact_no_owner(usr, xact_id, pay_amount) ==
    IF xact_id \notin DOMAIN mbts
    THEN [payments |-> <<>>, screen_msg |-> "none"]
    ELSE IF pay_amount > Retrieve(xact_id).balance_owed
    THEN [payments |-> <<>>, screen_msg |-> "Overpayment not allowed"]
    ELSE [payments |-> <<(<<xact_id, pay_amount>>)>>, screen_msg |-> "none"]

compile_one_xact(usr, xact_id, pay_amount) ==
    IF xact_id \notin DOMAIN mbts
    THEN [payments |-> <<>>, screen_msg |-> "none"]
    ELSE IF Retrieve(xact_id).usr # usr
    THEN [payments |-> <<>>, screen_msg |-> "none"]
    ELSE IF pay_amount > Retrieve(xact_id).balance_owed
    THEN [payments |-> <<>>, screen_msg |-> "Overpayment not allowed"]
    ELSE [payments |-> <<(<<xact_id, pay_amount>>)>>, screen_msg |-> "none"]

(***************************************************************************)
(* compile_multi_xacts                                                     *)
(***************************************************************************)
\* amount_remaining after a transaction was paid in full:
\*   (amount_remaining * 100.00 - balance_owed + 100.00) / 100.00
NextRemaining(amount_remaining, balance_owed) ==
    (amount_remaining * Hundred - balance_owed + Hundred * Dollar)
        \div Hundred

\* The loop over xacts.
RECURSIVE WalkXacts(_, _, _)
WalkXacts(xacts, amount_remaining, payments) ==
    IF xacts = <<>>
    THEN [payments |-> payments, amount_remaining |-> amount_remaining]
    ELSE
      LET xact == Head(xacts)
          balance_owed == xact.balance_owed
      IN  IF balance_owed < 0
          THEN WalkXacts(Tail(xacts), amount_remaining, payments)
          ELSE
            LET payment == IF balance_owed >= amount_remaining
                           THEN amount_remaining
                           ELSE balance_owed
                remaining == IF balance_owed >= amount_remaining
                             THEN 0
                             ELSE NextRemaining(amount_remaining, balance_owed)
                pushed == Append(payments, <<xact.id, payment>>)
            IN  IF remaining = 0
                THEN [payments |-> pushed, amount_remaining |-> 0]
                ELSE WalkXacts(Tail(xacts), remaining, pushed)

compile_multi_xacts_no_empty_case(usr, pay_amount) ==
    LET walk == WalkXacts(get_patron_xacts(usr), pay_amount, <<>>)
    IN  IF walk.amount_remaining > 0
        THEN [payments |-> walk.payments,
              screen_msg |-> "Overpayment not allowed",
              amount_remaining |-> walk.amount_remaining]
        ELSE [payments |-> walk.payments, screen_msg |-> "none",
              amount_remaining |-> walk.amount_remaining]

compile_multi_xacts(usr, pay_amount) ==
    LET xacts == get_patron_xacts(usr)
        walk  == WalkXacts(xacts, pay_amount, <<>>)
    IN  IF Len(xacts) = 0
        THEN [payments |-> <<>>, screen_msg |-> "No transactions to pay",
              amount_remaining |-> pay_amount]
        ELSE IF walk.amount_remaining > 0
        THEN [payments |-> walk.payments,
              screen_msg |-> "Overpayment not allowed",
              amount_remaining |-> walk.amount_remaining]
        ELSE [payments |-> walk.payments, screen_msg |-> "none",
              amount_remaining |-> walk.amount_remaining]

(***************************************************************************)
(* compile_response: message 38 with the ok flag, the patron barcode and,  *)
(* when there is one, the screen message (AF).                             *)
(***************************************************************************)
NoResponse == [code |-> "none"]

num_bool(b) == IF b THEN "1" ELSE "0"

compile_response(result) ==
    [code |-> "38", ok |-> num_bool(result.success),
     AA |-> result.patron_barcode, AF |-> result.screen_msg]

\* PaymentResult::new
PaymentResultNew(patron_barcode) ==
    [success |-> FALSE, screen_msg |-> "none",
     patron_barcode |-> patron_barcode]

(***************************************************************************)
(* apply_payments: the note and the arguments of the backend call are      *)
(* built and the function ends in todo!(): it panics, no call is made and  *)
(* result.success is never set.                                            *)
(***************************************************************************)
apply_payments(done, payments) ==
    [done EXCEPT !.applied = TRUE, !.apply_args = payments,
                 !.outcome = "panic", !.response = NoResponse]

(***************************************************************************)
(* handle_payment.  The value is the record kept in pay:                   *)
(*   path      how far the request got: error, nocard, badcg, one, multi   *)
(*   outcome   response (Ok(message)), error (Err) or panic                *)
(*   payments  the list compile_one_xact / compile_multi_xacts returned    *)
(*   applied   whether apply_payments was called, apply_args with what     *)
(*   written   whether the backend write was made                          *)
(***************************************************************************)
PayRecord(req, fault, path, outcome, result, payments, amount_remaining) ==
    [phase |-> "done", req |-> req, fault |-> fault, path |-> path,
     outcome |-> outcome,
     response |-> IF outcome = "response" THEN compile_response(result)
                  ELSE NoResponse,
     success |-> result.success, screen_msg |-> result.screen_msg,
     payments |-> payments, amount_remaining |-> amount_remaining,
     applied |-> FALSE, apply_args |-> <<>>, written |-> FALSE]

\* Lines 75-81: nothing to apply, or apply_payments and the response.
FinishPayment(req, fault, path, result, payments, amount_remaining) ==
    IF Len(payments) = 0
    THEN PayRecord(req, fault, path, "response", result, payments,
                   amount_remaining)
    ELSE apply_payments(
             PayRecord(req, fault, path, "response", result, payments,
                       amount_remaining),
             payments)

handle_payment_bad_cg_pays_all(req, fault) ==
    LET result == PaymentResultNew(req.patron_barcode)
        err(path) == PayRecord(req, fault, path, "error", result, <<>>,
                               req.pay_amount)
        usr == req.patron_barcode
    IN  IF fault \in {"authtoken", "field", "card_search"}
        THEN err("error")
        ELSE IF req.patron_barcode \notin Patrons
        THEN PayRecord(req, fault, "nocard", "response", result, <<>>,
                       req.pay_amount)
        ELSE IF fault = "xact_fetch"
        THEN err(IF req.cg.kind = "id" THEN "one" ELSE "multi")
        ELSE IF req.cg.kind = "id"
        THEN LET one == compile_one_xact(usr, req.cg.id, req.pay_amount)
             IN  FinishPayment(req, fault, "one",
                     [result EXCEPT !.screen_msg = one.screen_msg],
                     one.payments, req.pay_amount)
        ELSE LET multi == compile_multi_xacts(usr, req.pay_amount)
             IN  FinishPayment(req, fault, "multi",
                     [result EXCEPT !.screen_msg = multi.screen_msg],
                     multi.payments, multi.amount_remaining)

handle_payment(req, fault) ==
    LET result == PaymentResultNew(req.patron_barcode)
        err(path) == PayRecord(req, fault, path, "error", result, <<>>,
                               req.pay_amount)
        usr == req.patron_barcode
    IN  IF fault \in {"authtoken", "field", "card_search"}
        THEN err("error")
        ELSE IF req.patron_barcode \notin Patrons
        THEN PayRecord(req, fault, "nocard", "response", result, <<>>,
                       req.pay_amount)
        ELSE IF req.cg.kind = "invalid"
        THEN PayRecord(req, fault, "badcg", "response", result, <<>>,
                       req.pay_amount)
        ELSE IF fault = "xact_fetch"
        THEN err(IF req.cg.kind = "id" THEN "one" ELSE "multi")
        ELSE IF req.cg.kind = "id"
        THEN LET one == compile_one_xact(usr, req.cg.id, req.pay_amount)
             IN  FinishPayment(req, fault, "one",
                     [result EXCEPT !.screen_msg = one.screen_msg],
                     one.payments, req.pay_amount)
        ELSE LET multi == compile_multi_xacts(usr, req.pay_amount)
             IN  FinishPayment(req, fault, "multi",
                     [result EXCEPT !.screen_msg = multi.screen_msg],
                     multi.payments, multi.amount_remaining)

\* A fee-paid request is handled.
FeePaid(req, fault) ==
    /\ pay.phase = "none"
    /\ pay' = handle_payment(req, fault)
    /\ UNCHANGED <<srvVars, libVars, sesVars, mbts>>

PayInit ==
    /\ ServerNew
    /\ mbts \in BoundedSeq(XactRows, MaxXacts)
    /\ pay = NoPayment
    /\ ses = NoSession
    /\ call = NoCall
    /\ note = NoNote
    /\ param = NoParam
    /\ react = NoReact

PayNext == \E req \in Requests, fault \in Faults : FeePaid(req, fault)

PaySpec == PayInit /\ [][PayNext]_vars

(***************************************************************************)
(* Properties of the gateway (under Spec).                                 *)
(***************************************************************************)

C2_AdmitUntilN ==
    [][(pc_srv = "accepting" /\ sesid' = sesid + 1
            /\ ses_pc'[sesid'] # "accepterr")
        => IF Cardinality(LiveSessions) < MaxClients
           THEN ses_pc'[sesid'] = "queued"
           ELSE ses_pc'[sesid'] = "rejected"]_vars

\* C3: a Session that takes a receive timeout while the shared shutdown
\* signal is set leaves its main loop and closes its socket.
C3_TimeoutObservesShutdown ==
    [][\A s \in Conns :
          (ses_pc[s] = "timeout" /\ shutdown /\ ses_pc'[s] # "timeout")
              => ses_pc'[s] = "closed"]_vars

\* C4: once the shared shutdown signal is set, no Session worker is spawned
\* for a connection that arrives afterwards.
C4_NoSpawnAfterShutdown ==
    [][shutdown =>
          \A s \in Conns : ses_pc[s] = "unused" => ses_pc'[s] # "queued"]_vars

\* C5: serve() has returned only if its accept loop saw the shutdown signal
\* and no Session worker it spawned is still queued or running.
C5_ReturnAfterJoin ==
    pc_srv = "returned" =>
        /\ shutdown
        /\ \A s \in Conns : ses_pc[s] \notin Live

\* serve() has returned and a Session it spawned had run and finished.
C5_Witness ==
    /\ pc_srv = "returned"
    /\ \E s \in Conns : ses_pc[s] \in Finished

(***************************************************************************)
(* Properties of the Payment Engine (under PaySpec).                       *)
(***************************************************************************)
RECURSIVE SumPayments(_)
SumPayments(payments) ==
    IF payments = <<>> THEN 0
    ELSE Head(payments)[2] + SumPayments(Tail(payments))

\* The fee-paid request got as far as the targeted / the untargeted
\* allocation, with nothing failing outside the engine.
Targeted == pay.phase = "done" /\ pay.path = "one" /\ pay.fault = "none"
Untargeted == pay.phase = "done" /\ pay.path = "multi" /\ pay.fault = "none"

\* C6: in every allocation list the engine produces, each amount is at most
\* the balance owed of its transaction and the amounts sum to at most the
\* tendered amount.
C6_AllocationBounds ==
    (pay.phase = "done" /\ pay.payments # <<>>) =>
        /\ \A i \in DOMAIN pay.payments :
              pay.payments[i][2] <= mbts[pay.payments[i][1]].balance_owed
        /\ SumPayments(pay.payments) <= pay.req.pay_amount

\* The walk as C7 words it: a transaction owing at least `remaining` takes
\* all of it and the walk stops, otherwise it takes its balance owed and
\* `remaining` goes down by exactly that balance.
RECURSIVE StatedWalk(_, _, _)
StatedWalk(xacts, remaining, payments) ==
    IF xacts = <<>>
    THEN [payments |-> payments, amount_remaining |-> remaining]
    ELSE IF Head(xacts).balance_owed >= remaining
    THEN [payments |-> Append(payments, <<Head(xacts).id, remaining>>),
          amount_remaining |-> 0]
    ELSE StatedWalk(Tail(xacts), remaining - Head(xacts).balance_owed,
                    Append(payments,
                           <<Head(xacts).id, Head(xacts).balance_owed>>))

\* C7: an untargeted payment over transactions that all owe something gives
\* the allocation list and the remaining amount of the stated walk (for
\* balances 5.00, 3.00, 10.00 and 7.00 tendered: (t1, 5.00), (t2, 2.00),
\* remaining 0).
C7_UntargetedWalk ==
    LET xacts == get_patron_xacts(pay.req.patron_barcode)
        stated == StatedWalk(xacts, pay.req.pay_amount, <<>>)
    IN  (Untargeted /\ xacts # <<>>
            /\ \A i \in DOMAIN xacts : xacts[i].balance_owed > 0)
        => /\ pay.payments = stated.payments
           /\ pay.amount_remaining = stated.amount_remaining

RECURSIVE TotalOwed(_)
TotalOwed(xacts) ==
    IF xacts = <<>> THEN 0
    ELSE (IF Head(xacts).balance_owed > 0 THEN Head(xacts).balance_owed ELSE 0)
            + TotalOwed(Tail(xacts))

\* C8: an untargeted payment that tenders more than the patron's
\* transactions owe in total is an Overpayment: the allocation list is
\* discarded, apply_payments is not called and nothing is written.
C8_OverpaymentDiscarded ==
    LET xacts == get_patron_xacts(pay.req.patron_barcode)
    IN  (Untargeted /\ xacts # <<>> /\ pay.req.pay_amount > TotalOwed(xacts))
        => /\ pay.screen_msg = "Overpayment not allowed"
           /\ pay.payments = <<>>
           /\ ~pay.applied
           /\ ~pay.written

\* C9: a targeted payment on an existing transaction of the patron: when the
\* tendered amount is at most the balance owed the allocation is the single
\* pair (id, tendered) and the response carries the success flag; when it
\* is more, the outcome is Overpayment and nothing is applied.
C9_TargetedPayment ==
    (Targeted /\ pay.req.cg.id \in DOMAIN mbts
        /\ mbts[pay.req.cg.id].usr = pay.req.patron_barcode)
    => IF pay.req.pay_amount <= mbts[pay.req.cg.id].balance_owed
       THEN /\ pay.payments = <<(<<pay.req.cg.id, pay.req.pay_amount>>)>>
            /\ pay.success
            /\ pay.outcome = "response"
            /\ pay.response.ok = "1"
       ELSE /\ pay.screen_msg = "Overpayment not allowed"
            /\ pay.payments = <<>>
            /\ ~pay.applied
            /\ ~pay.written

\* C10: a targeted payment naming a transaction that does not exist or that
\* belongs to another patron produces no allocation and no backend write,
\* and is answered with a fee-paid response (38) whose ok flag is 0 and
\* that carries no Overpayment message.
C10_NotFound ==
    (Targeted /\ (pay.req.cg.id \notin DOMAIN mbts
                    \/ mbts[pay.req.cg.id].usr # pay.req.patron_barcode))
    => /\ pay.payments = <<>>
       /\ ~pay.applied
       /\ ~pay.written
       /\ pay.outcome = "response"
       /\ pay.response.code = "38"
       /\ pay.response.ok = "0"
       /\ pay.response.AA = pay.req.patron_barcode
       /\ pay.response.AF = "none"

\* A targeted payment named a transaction of another patron that owes at
\* least the tendered amount, and was answered.
C10_Witness ==
    /\ Targeted
    /\ pay.req.cg.id \in DOMAIN mbts
    /\ mbts[pay.req.cg.id].usr # pay.req.patron_barcode
    /\ pay.req.pay_amount <= mbts[pay.req.cg.id].balance_owed
    /\ pay.outcome = "response"

(***************************************************************************)
(* One Session seen from inside: Session::start reads a request, hands it  *)
(* to handle_sip_request and writes the response; every Err leaves start   *)
(* through `?`.                                                            *)
(***************************************************************************)
\* Most requests one connection sends.
MaxReqs == 3

\* The SIP accounts of the configuration, username -> password.
sip_accounts == [u \in Users |-> IF u = "sip-user" THEN "sip-pass" ELSE "sip-pass2"]

\* Config::get_account: the account of that name, if any.
get_account(username) ==
    IF username \in DOMAIN sip_accounts THEN username ELSE "none"

\* Values of the CN and CO fields of a login message ("absent": no field).
Usernames == Users \cup {"+23423+", "absent"}
Passwords == {"sip-pass", "sip-pass2", "+29872+", "absent"}

\* Message codes: SC status, login, item information, patron status,
\* patron information, fee paid, and checkout.
LoginCode == "93"
ProtectedCodes == {"17", "23", "63"}
SipCodes == {"99", "93", "17", "23", "63", "37", "11"}

SipRequests ==
    [code : {LoginCode}, CN : Usernames, CO : Passwords]
        \cup [code : SipCodes \ {LoginCode}, CN : {"absent"}, CO : {"absent"}]

NoRequest == [code |-> "none", CN |-> "absent", CO |-> "absent"]

\* What a handler hands back: Ok(message) with the account it leaves in
\* the Session, or Err(text).
HandlerOk(account, routed, resp) ==
    [kind |-> "ok", account |-> account, routed |-> routed, resp |-> resp,
     error |-> "none"]
HandlerErr(account, routed, error) ==
    [kind |-> "err", account |-> account, routed |-> routed,
     resp |-> NoResponse, error |-> error]

handle_login_no_store(account, msg) ==
    IF msg.CN = "absent"
    THEN HandlerErr(account, "handle_login", "login() missing username")
    ELSE IF msg.CO = "absent"
    THEN HandlerErr(account, "handle_login", "login() missing password")
    ELSE IF get_account(msg.CN) = "none"
    THEN HandlerErr(account, "handle_login", "No such account")
    ELSE IF sip_accounts[get_account(msg.CN)] = msg.CO
    THEN HandlerOk(account, "handle_login", [code |-> "94", ok |-> "1"])
    ELSE HandlerOk("none", "handle_login", [code |-> "94", ok |-> "0"])

handle_login(account, msg) ==
    IF msg.CN = "absent"
    THEN HandlerErr(account, "handle_login", "login() missing username")
    ELSE IF msg.CO = "absent"
    THEN HandlerErr(account, "handle_login", "login() missing password")
    ELSE IF get_account(msg.CN) = "none"
    THEN HandlerErr(account, "handle_login", "No such account")
    ELSE IF sip_accounts[get_account(msg.CN)] = msg.CO
    THEN HandlerOk(get_account(msg.CN), "handle_login",
                   [code |-> "94", ok |-> "1"])
    ELSE HandlerOk("none", "handle_login", [code |-> "94", ok |-> "0"])

handle_sc_status_no_gate(account, sc_status_before_login) ==
    HandlerOk(account, "handle_sc_status",
              [code |-> "98", online_status |-> "Y", checkin_ok |-> "Y",
               checkout_ok |-> "Y", acs_renewal_policy |-> "Y",
               status_update_ok |-> "N", offline_ok |-> "N",
               timeout_period |-> "999", retries_allowed |-> "999",
               protocol_version |-> "2.00", AO |-> account])

handle_sc_status(account, sc_status_before_login) ==
    IF account = "none" /\ ~sc_status_before_login
    THEN HandlerErr(account, "handle_sc_status",
                    "SC Status before login disabled")
    ELSE HandlerOk(account, "handle_sc_status",
                   [code |-> "98", online_status |-> "Y", checkin_ok |-> "Y",
                    checkout_ok |-> "Y", acs_renewal_policy |-> "Y",
                    status_update_ok |-> "N", offline_ok |-> "N",
                    timeout_period |-> "999", retries_allowed |-> "999",
                    protocol_version |-> "2.00", AO |-> account])

\* handle_item_info, handle_patron_status, handle_patron_info: the response
\* of the code, or the Err of a failed backend call.
ProtectedHandler(code) ==
    CASE code = "17" -> "handle_item_info"
      [] code = "23" -> "handle_patron_status"
      [] code = "63" -> "handle_patron_info"

ProtectedResponse(code) ==
    CASE code = "17" -> [code |-> "18"]
      [] code = "23" -> [code |-> "24"]
      [] code = "63" -> [code |-> "64"]

protected_handler(account, code, backend_ok) ==
    IF backend_ok
    THEN HandlerOk(account, ProtectedHandler(code), ProtectedResponse(code))
    ELSE HandlerErr(account, ProtectedHandler(code), "backend call failed")

handle_sip_request(account, sc_status_before_login, msg, backend_ok) ==
    IF msg.code = "99" THEN handle_sc_status(account, sc_status_before_login)
    ELSE IF msg.code = "93" THEN handle_login(account, msg)
    ELSE IF account = "none"
    THEN HandlerErr(account, "refused", "SIP client is not logged in")
    ELSE IF msg.code \in ProtectedCodes
    THEN protected_handler(account, msg.code, backend_ok)
    ELSE HandlerErr(account, "unsupported", "Unsupported SIP message code")

\* Session::run builds the Session: no account, shutdown false.
SessionNew(sc_status_before_login) ==
    [pc |-> "recv", account |-> "none",
     sc_status_before_login |-> sc_status_before_login, shutdown |-> FALSE,
     req |-> NoRequest, routed |-> "none", resp |-> NoResponse,
     error |-> "none", cause |-> "none", nreq |-> 0, log |-> <<>>]

\* recv_with_timeout returns Some(request).
SRecv(msg) ==
    /\ ses.pc = "recv"
    /\ ses.nreq < MaxReqs
    /\ ses' = [ses EXCEPT !.pc = "handling", !.req = msg,
                          !.routed = "pending", !.resp = NoResponse,
                          !.nreq = @ + 1,
                          !.log = Append(@, [dir |-> "req", msg |-> msg])]
    /\ UNCHANGED <<srvVars, libVars, payVars, call>>

\* recv_with_timeout returns None.
SRecvTimeout ==
    /\ ses.pc = "recv"
    /\ ses' = [ses EXCEPT !.pc = "timeout"]
    /\ UNCHANGED <<srvVars, libVars, payVars, call>>

\* `if self.shutdown { break }`, else `continue`; after the loop the
\* connection is disconnected and start returns Ok.
SCheckShutdown ==
    /\ ses.pc = "timeout"
    /\ ses' = IF ses.shutdown
              THEN [ses EXCEPT !.pc = "ended", !.cause = "shutdown"]
              ELSE [ses EXCEPT !.pc = "recv"]
    /\ UNCHANGED <<srvVars, libVars, payVars, call>>

\* recv_with_timeout returns Err: start returns "SIP recv() failed".
SRecvError ==
    /\ ses.pc = "recv"
    /\ ses' = [ses EXCEPT !.pc = "ended", !.cause = "io",
                          !.error = "SIP recv() failed"]
    /\ UNCHANGED <<srvVars, libVars, payVars, call>>

\* `let sip_resp = self.handle_sip_request(&sip_req)?`
SHandle(backend_ok) ==
    /\ ses.pc = "handling"
    /\ LET r == handle_sip_request(ses.account, ses.sc_status_before_login,
                                   ses.req, backend_ok)
       IN ses' = IF r.kind = "ok"
                 THEN [ses EXCEPT !.pc = "sending", !.account = r.account,
                                  !.routed = r.routed, !.resp = r.resp]
                 ELSE [ses EXCEPT !.pc = "ended", !.account = r.account,
                                  !.routed = r.routed, !.cause = "handler",
                                  !.error = r.error]
    /\ UNCHANGED <<srvVars, libVars, payVars, call>>

SSendSkipsWrite(io_ok) ==
    /\ ses.pc = "sending"
    /\ ses' = IF io_ok
              THEN [ses EXCEPT !.pc = "recv"]
              ELSE [ses EXCEPT !.pc = "ended", !.cause = "io",
                               !.error = "SIP send failed"]
    /\ UNCHANGED <<srvVars, libVars, payVars, call>>

\* `self.sip_connection.send(&sip_resp)...?`, then the loop goes round.
SSend(io_ok) ==
    /\ ses.pc = "sending"
    /\ ses' = IF io_ok
              THEN [ses EXCEPT !.pc = "recv",
                               !.log = Append(@, [dir |-> "resp",
                                                  msg |-> ses.resp])]
              ELSE [ses EXCEPT !.pc = "ended", !.cause = "io",
                               !.error = "SIP send failed"]
    /\ UNCHANGED <<srvVars, libVars, payVars, call>>

SessionInit ==
    /\ ServerNew
    /\ mbts = <<>>
    /\ pay = NoPayment
    /\ ses \in {SessionNew(b) : b \in BOOLEAN}
    /\ call = NoCall
    /\ note = NoNote
    /\ param = NoParam
    /\ react = NoReact

SessionNext ==
    \/ \E msg \in SipRequests : SRecv(msg)
    \/ SRecvTimeout
    \/ SCheckShutdown
    \/ SRecvError
    \/ \E backend_ok \in BOOLEAN : SHandle(backend_ok)
    \/ \E io_ok \in BOOLEAN : SSend(io_ok)

SessionSpec == SessionInit /\ [][SessionNext]_vars

(***************************************************************************)
(* The backend identity of a Session that holds an account: the editor's   *)
(* token, set_authtoken before a handler's calls, and                      *)
(* unpack_response_event on what a call returned.                          *)
(***************************************************************************)
\* Most handler requests followed on one Session.
MaxCalls == 3

\* How Session::login ends: Ok; Err before the token is stored (user search
\* fails, no such user, internal_session fails); the panic of a refused
\* internal login; Err of the final checkauth, the new token already stored.
LoginOutcomes == {"ok", "err", "panic", "checkauth_err"}

\* What a backend call hands back: a value, the NO_SESSION event, another
\* event.
Responses == {"value", "NO_SESSION", "event"}

\* Session::login: the result and the token the editor holds afterwards.
login(token, outcome) ==
    CASE outcome = "ok" -> [kind |-> "ok", token |-> "valid"]
      [] outcome = "err" -> [kind |-> "err", token |-> token]
      [] outcome = "panic" -> [kind |-> "panic", token |-> token]
      [] outcome = "checkauth_err" -> [kind |-> "err", token |-> "valid"]

\* Session::set_authtoken: a token the backend still honours is kept, else
\* login() is made.
set_authtoken(token, checkauth_ok, outcome) ==
    IF token # "none" /\ ~checkauth_ok
    THEN [kind |-> "err", token |-> token, logins |-> 0]
    ELSE IF token = "valid"
    THEN [kind |-> "ok", token |-> token, logins |-> 0]
    ELSE [kind |-> login(token, outcome).kind,
          token |-> login(token, outcome).token, logins |-> 1]

\* Session::unpack_response_event: NO_SESSION makes a login and yields
\* Ok(None); another event is handed back; a value yields Ok(None).
unpack_response_event(token, response, outcome) ==
    IF response = "NO_SESSION"
    THEN [kind |-> login(token, outcome).kind,
          token |-> login(token, outcome).token, logins |-> 1,
          result |-> IF login(token, outcome).kind = "ok"
                     THEN "Ok(None)" ELSE "none"]
    ELSE [kind |-> "ok", token |-> token, logins |-> 0,
          result |-> IF response = "event" THEN "Ok(Some(evt))"
                     ELSE "Ok(None)"]

\* After a result kind: where the handler is.
PhaseAfter(kind, next) ==
    CASE kind = "ok" -> next
      [] kind = "err" -> "failed"
      [] kind = "panic" -> "panicked"

\* The editor of a new Session holds no token.
CallNew ==
    [phase |-> "idle", token |-> "none", calls |-> 0, logins |-> 0,
     response |-> "none", result |-> "none", nreq |-> 0]

\* The backend drops the session behind the token.
TokenExpires ==
    /\ call.phase \in {"idle", "ready"}
    /\ call.token = "valid"
    /\ call' = [call EXCEPT !.token = "expired"]
    /\ UNCHANGED <<srvVars, libVars, payVars, ses>>

\* `self.set_authtoken()?` at the head of a handler.
SetAuthtoken(checkauth_ok, outcome) ==
    /\ call.phase = "idle"
    /\ LET r == set_authtoken(call.token, checkauth_ok, outcome)
       IN call' = [call EXCEPT !.phase = PhaseAfter(r.kind, "ready"),
                               !.token = r.token,
                               !.logins = @ + r.logins]
    /\ UNCHANGED <<srvVars, libVars, payVars, ses>>

\* The handler makes its backend call; a token the backend does not honour
\* is answered with NO_SESSION.
ApiCall(response) ==
    /\ call.phase = "ready"
    /\ call' = [call EXCEPT !.phase = "called", !.calls = @ + 1,
                            !.response = IF call.token = "valid"
                                         THEN response ELSE "NO_SESSION"]
    /\ UNCHANGED <<srvVars, libVars, payVars, ses>>

\* The handler passes what the call returned to unpack_response_event.
UnpackResponse(outcome) ==
    /\ call.phase = "called"
    /\ LET r == unpack_response_event(call.token, call.response, outcome)
       IN call' = [call EXCEPT !.phase = PhaseAfter(r.kind, "done"),
                               !.token = r.token,
                               !.logins = @ + r.logins,
                               !.result = r.result]
    /\ UNCHANGED <<srvVars, libVars, payVars, ses>>

\* The next request of the connection reaches a handler.
NextRequest ==
    /\ call.phase \in {"done", "failed"}
    /\ call.nreq < MaxCalls
    /\ call' = [call EXCEPT !.phase = "idle", !.calls = 0, !.logins = 0,
                            !.response = "none", !.result = "none",
                            !.nreq = @ + 1]
    /\ UNCHANGED <<srvVars, libVars, payVars, ses>>

AuthInit ==
    /\ ServerNew
    /\ mbts = <<>>
    /\ pay = NoPayment
    /\ ses = NoSession
    /\ call = CallNew
    /\ note = NoNote
    /\ param = NoParam
    /\ react = NoReact

AuthNext ==
    \/ TokenExpires
    \/ \E checkauth_ok \in BOOLEAN, outcome \in LoginOutcomes :
           SetAuthtoken(checkauth_ok, outcome)
    \/ \E response \in Responses \ {"NO_SESSION"} : ApiCall(response)
    \/ \E outcome \in LoginOutcomes : UnpackResponse(outcome)
    \/ NextRequest

AuthSpec == AuthInit /\ [][AuthNext]_vars

\* C11: apply_payments is called only for a non-failing allocation and with
\* the complete list; the call is one backend write that sets the success
\* flag, or a failed write that surfaces as a Backend error with nothing
\* written.
C11_ApplyOnce ==
    (pay.phase = "done" /\ pay.applied) =>
        /\ pay.screen_msg = "none"
        /\ pay.apply_args = pay.payments
        /\ \/ pay.written /\ pay.success /\ pay.outcome = "response"
           \/ ~pay.written /\ ~pay.success /\ pay.outcome = "error"

\* C12: every fee-paid request that carries its fields is answered with a
\* response 38 holding the ok flag and the patron barcode, whatever the
\* outcome (a backend failure included), and the message field is filled
\* on Overpayment and on nothing-to-pay.
C12_AlwaysResponse ==
    (pay.phase = "done" /\ pay.fault # "field") =>
        /\ pay.outcome = "response"
        /\ pay.response.code = "38"
        /\ pay.response.ok = num_bool(pay.success)
        /\ pay.response.AA = pay.req.patron_barcode
        /\ pay.response.AF = pay.screen_msg

\* A login message that names an account of the table with its password.
ValidLogin(msg) ==
    /\ msg.code = LoginCode
    /\ msg.CN \in Users
    /\ sip_accounts[msg.CN] = msg.CO

\* A login message that carries both fields and is not valid.
FailedLogin(msg) ==
    /\ msg.code = LoginCode
    /\ msg.CN # "absent"
    /\ msg.CO # "absent"
    /\ ~ValidLogin(msg)

\* handle_sip_request has returned for the request in ses.req.
Handled == ses.pc # "none" /\ ses.routed \notin {"none", "pending"}

\* C13: a Session starts without an account; a valid Login stores the
\* account it names and is answered with login response ok = 1; a protected
\* code on a Session that holds an account goes to its handler.
C13_ValidLogin ==
    /\ (ses.pc # "none" /\ ses.nreq = 0) => ses.account = "none"
    /\ (Handled /\ ValidLogin(ses.req)) =>
           /\ ses.account = ses.req.CN
           /\ ses.resp = [code |-> "94", ok |-> "1"]
           /\ ses.cause # "handler"
    /\ (Handled /\ ses.req.code \in ProtectedCodes /\ ses.account # "none") =>
           ses.routed = ProtectedHandler(ses.req.code)

\* A valid Login was answered with ok = 1 and the item-information request
\* that followed went to handle_item_info.
C13_Witness ==
    /\ ses.pc = "sending"
    /\ Len(ses.log) >= 3
    /\ ValidLogin(ses.log[1].msg)
    /\ ses.log[2].msg = [code |-> "94", ok |-> "1"]
    /\ ses.routed = "handle_item_info"
    /\ ses.account = ses.log[1].msg.CN

\* C14: after a Login with incorrect credentials the Session holds no
\* account, whatever it held before; a protected code on a Session without
\* account is refused as not logged in; the account is one of the table or
\* none.
C14_FailedLoginUnauthenticated ==
    /\ (Handled /\ FailedLogin(ses.req)) => ses.account = "none"
    /\ (Handled /\ ses.req.code \in ProtectedCodes /\ ses.account = "none") =>
           /\ ses.routed = "refused"
           /\ ses.error = "SIP client is not logged in"
    /\ ses.pc # "none" => ses.account \in Users \cup {"none"}

\* C15: every failed login, wrong password or unknown username, is answered
\* with login response ok = 0 and the Session goes on.
C15_FailedLoginAnswered ==
    (Handled /\ FailedLogin(ses.req)) =>
        /\ ses.resp = [code |-> "94", ok |-> "0"]
        /\ ses.cause # "handler"

\* A request that carries the fields its code requires.
WellFormed(msg) ==
    msg.code = LoginCode => (msg.CN # "absent" /\ msg.CO # "absent")

\* C16: a Session that received a well-formed request ends only on a
\* transport failure (or on shutdown), and when it waits for a request
\* every request received so far was answered.
C16_EveryRequestAnswered ==
    /\ (ses.pc = "ended" /\ WellFormed(ses.req)) =>
           ses.cause \in {"io", "shutdown"}
    /\ ses.pc \in {"recv", "timeout"} => Len(ses.log) = 2 * ses.nreq

\* The codes of the protocol table of the gateway.
SupportedCodes == {"99", "93", "17", "23", "63", "37"}

\* C17: a request with an unsupported code, received by a Session that
\* holds an account, does not end the Session: it stays connected with its
\* account.
C17_UnsupportedKeepsSession ==
    (Handled /\ ses.req.code \in SipCodes \ SupportedCodes
             /\ ses.account # "none") =>
        ses.cause # "handler"

\* C18: a fee-paid request on a Session that holds an account is routed to
\* handle_payment and its message is sent.
C18_FeePaidRouted ==
    (Handled /\ ses.req.code = "37" /\ ses.account # "none") =>
        /\ ses.routed = "handle_payment"
        /\ ses.cause # "handler"

\* The response code that answers a request code.
ResponseCode(code) ==
    CASE code = "99" -> "98"
      [] code = "93" -> "94"
      [] code = "17" -> "18"
      [] code = "23" -> "24"
      [] code = "63" -> "64"
      [] OTHER -> "none"

\* C19: on one connection requests and responses alternate, each response
\* answers the request before it, the next request is read only after the
\* response was written and at most one request is in progress.
C19_StrictAlternation ==
    ses.pc # "none" =>
        /\ \A i \in 1..Len(ses.log) :
               ses.log[i].dir = IF i % 2 = 1 THEN "req" ELSE "resp"
        /\ \A i \in 1..Len(ses.log) :
               i % 2 = 0 =>
                   ses.log[i].msg.code = ResponseCode(ses.log[i - 1].msg.code)
        /\ ses.pc \in {"recv", "timeout"} => Len(ses.log) = 2 * ses.nreq
        /\ ses.pc \in {"handling", "sending"} =>
               Len(ses.log) = 2 * ses.nreq - 1

\* Two requests were answered and a third is read.
C19_Witness ==
    /\ ses.pc = "handling"
    /\ Len(ses.log) = 5
    /\ ses.log[4].dir = "resp"

\* C20: a backend call answered with NO_SESSION is followed by one login
\* and the call is made a second time, and no call is made more than twice.
C20_RetryOnce ==
    /\ (call.phase = "done" /\ call.response = "NO_SESSION") =>
           /\ call.logins >= 1
           /\ call.calls = 2
    /\ call.phase # "none" => call.calls <= 2

(***************************************************************************)
(* The payment note of apply_payments.  A register login (field OR) is a   *)
(* string, here a sequence of characters.                                  *)
(***************************************************************************)
\* Longest register login.
MaxLoginLen == 4

Backslash == "\\"
Chars == {"a", "b", Backslash}

\* Option<String>: None, or Some(rl).
RegisterLogins ==
    {[some |-> FALSE, rl |-> <<>>]}
        \cup {[some |-> TRUE, rl |-> s] : s \in BoundedSeq(Chars, MaxLoginLen)}

\* Where the first backslash of s is, 0 if there is none.
FirstBackslash(s) ==
    IF \E i \in 1..Len(s) : s[i] = Backslash
    THEN CHOOSE i \in 1..Len(s) :
             /\ s[i] = Backslash
             /\ \A j \in 1..(i - 1) : s[j] # Backslash
    ELSE 0

\* rl.split("\\"): the pieces between the backslashes, in order.
RECURSIVE split(_)
split(s) ==
    IF FirstBackslash(s) = 0
    THEN <<s>>
    ELSE <<SubSeq(s, 1, FirstBackslash(s) - 1)>>
             \o split(SubSeq(s, FirstBackslash(s) + 1, Len(s)))

\* The note: the second piece of the login if there is one, else the
\* first; the generic note without a login.
payment_note(register_login_op) ==
    IF register_login_op.some
    THEN LET parts == split(register_login_op.rl)
             p0 == parts[1]
         IN  [text |-> "Via SIP2: Register login",
              login |-> IF Len(parts) >= 2 THEN parts[2] ELSE p0]
    ELSE [text |-> "VIA SIP2", login |-> <<>>]

\* apply_payments makes the note of the register login it was given.
MakeNote ==
    /\ note.phase = "given"
    /\ note' = [note EXCEPT !.phase = "done",
                            !.note = payment_note(note.register_login_op)]
    /\ UNCHANGED <<srvVars, payVars, sesVars, param, react>>

NoteInit ==
    /\ ServerNew
    /\ mbts = <<>>
    /\ pay = NoPayment
    /\ ses = NoSession
    /\ call = NoCall
    /\ note \in {[phase |-> "given", register_login_op |-> r,
                   note |-> [text |-> "none", login |-> <<>>]] :
                      r \in RegisterLogins}
    /\ param = NoParam
    /\ react = NoReact

NoteNext == MakeNote

NoteSpec == NoteInit /\ [][NoteNext]_vars

\* What follows the last backslash of s; s itself if it has none.
AfterLastBackslash(s) ==
    LET last == IF \E i \in 1..Len(s) : s[i] = Backslash
                THEN CHOOSE i \in 1..Len(s) :
                         /\ s[i] = Backslash
                         /\ \A j \in (i + 1)..Len(s) : s[j] # Backslash
                ELSE 0
    IN  SubSeq(s, last + 1, Len(s))

\* C27: the note names, for a login with backslashes, what follows the last
\* backslash, for a login without backslash the login as given, and it is
\* the generic note when no login was supplied.
C27_NoteLogin ==
    note.phase = "done" =>
        note.note = IF note.register_login_op.some
                    THEN [text |-> "Via SIP2: Register login",
                          login |-> AfterLastBackslash(
                                        note.register_login_op.rl)]
                    ELSE [text |-> "VIA SIP2", login |-> <<>>]

(***************************************************************************)
(* ParamCount::matches (opensrf method.rs).  The counts are u8; here they  *)
(* run from 0 to MaxCount.                                                 *)
(***************************************************************************)
\* Largest count and largest number held by a ParamCount.
MaxCount == 4
\* Largest group of linked events given to Processor::react.
MaxGroup == 3

Counts == 0..MaxCount

\* enum ParamCount { Any, Zero, Exactly(u8), AtLeast(u8), Range(u8, u8) }
ParamCounts ==
    [kind : {"Any", "Zero"}, a : {0}, b : {0}]
        \cup [kind : {"Exactly", "AtLeast"}, a : Counts, b : {0}]
        \cup [kind : {"Range"}, a : Counts, b : Counts]

matches_exclusive_end(pc, count) ==
    CASE pc.kind = "Any" -> TRUE
      [] pc.kind = "Zero" -> count = 0
      [] pc.kind = "Exactly" -> count = pc.a
      [] pc.kind = "AtLeast" -> count >= pc.a
      [] pc.kind = "Range" -> pc.a <= count /\ pc.b > count

matches(pc, count) ==
    CASE pc.kind = "Any" -> TRUE
      [] pc.kind = "Zero" -> count = 0
      [] pc.kind = "Exactly" -> count = pc.a
      [] pc.kind = "AtLeast" -> count >= pc.a
      [] pc.kind = "Range" -> pc.a <= count /\ pc.b >= count

\* A call of ParamCount::matches(&pc, count).
Matches ==
    /\ param.phase = "given"
    /\ param' = [param EXCEPT !.phase = "done",
                              !.result = matches(param.pc, param.count)]
    /\ UNCHANGED <<srvVars, payVars, sesVars, note, react>>

MatchInit ==
    /\ ServerNew
    /\ mbts = <<>>
    /\ pay = NoPayment
    /\ ses = NoSession
    /\ call = NoCall
    /\ note = NoNote
    /\ param \in [phase : {"given"}, pc : ParamCounts, count : Counts,
                   result : {FALSE}]
    /\ react = NoReact

MatchNext == Matches

MatchSpec == MatchInit /\ [][MatchNext]_vars

\* ---------------------------------------------------------------------
\* Processor::react (evergreen/src/common/trigger/reactor/mod.rs): one
\* call of react on a group of linked events, step by step.

\* The reactors react knows by name, and one it does not know.
KnownReactors == {"NOOP_True", "NOOP_False", "Circ::AutoRenew"}
Reactors == KnownReactors \cup {"SendEmail"}

\* What Circ::AutoRenew may return: Ok, or its error.
AutorenewResults == {"Ok", "autorenew failed"}

\* The groups react may be given: up to MaxGroup events, each in the
\* state validation left it in.
EventGroups == UNION {[1..n -> {"Valid"}] : n \in 0..MaxGroup}

\* set_event_state(event, state): a fallible call (react uses it with ?).
\* When it returns Ok the event is in the state given; when it returns Err
\* the event may or may not have taken the state (stored).
set_event_state(events, i, state, ok, stored) ==
    IF ok \/ stored THEN [events EXCEPT ![i] = state] ELSE events

\* The match on the reactor's name: Ok, or the error returned.
reactor_result_unknown_ok(reactor, autorenew) ==
    IF reactor = "NOOP_True" THEN "Ok"
    ELSE IF reactor = "NOOP_False" THEN "NOOP_False"
    ELSE IF reactor = "Circ::AutoRenew" THEN autorenew
    ELSE "Ok"

reactor_result(reactor, autorenew) ==
    IF reactor = "NOOP_True" THEN "Ok"
    ELSE IF reactor = "NOOP_False" THEN "NOOP_False"
    ELSE IF reactor = "Circ::AutoRenew" THEN autorenew
    ELSE "No such reactor"

\* react is entered: an empty group returns Ok at once.
ReactEnter ==
    /\ react.phase = "called"
    /\ react' = IF react.events = <<>>
                THEN [react EXCEPT !.phase = "done", !.result = "Ok"]
                ELSE [react EXCEPT !.phase = "reacting", !.i = 1]
    /\ UNCHANGED <<srvVars, payVars, sesVars, note, param>>

\* One turn of the first loop: the next event is set to Reacting; an error
\* of set_event_state is returned at once.
SetReacting ==
    /\ react.phase = "reacting"
    /\ \E ok \in BOOLEAN, stored \in BOOLEAN :
          react' = [react EXCEPT
                      !.events = set_event_state(@, react.i, "Reacting",
                                                 ok, stored),
                      !.sets = @ + 1,
                      !.i = IF ok THEN @ + 1 ELSE @,
                      !.phase = IF ~ok THEN "done"
                                ELSE IF react.i = Len(react.events)
                                     THEN "reactor" ELSE "reacting",
                      !.result = IF ok THEN @ ELSE "set_event_state failed"]
    /\ UNCHANGED <<srvVars, payVars, sesVars, note, param>>

\* The reactor named by the event definition runs; its error ends react.
RunReactor ==
    /\ react.phase = "reactor"
    /\ \E autorenew \in AutorenewResults :
          LET react_result == reactor_result(react.reactor, autorenew) IN
          react' = [react EXCEPT
                      !.ran = TRUE,
                      !.react_result = react_result,
                      !.i = 1,
                      !.phase = IF react_result = "Ok" THEN "reacted"
                                ELSE "done",
                      !.result = IF react_result = "Ok" THEN @
                                 ELSE react_result]
    /\ UNCHANGED <<srvVars, payVars, sesVars, note, param>>

\* One turn of the second loop: the next event is set to Reacted; an error
\* of set_event_state is returned at once; after the last event react
\* returns the reactor's result.
SetReacted ==
    /\ react.phase = "reacted"
    /\ \E ok \in BOOLEAN, stored \in BOOLEAN :
          react' = [react EXCEPT
                      !.events = set_event_state(@, react.i, "Reacted",
                                                 ok, stored),
                      !.sets = @ + 1,
                      !.i = IF ok THEN @ + 1 ELSE @,
                      !.phase = IF ~ok THEN "done"
                                ELSE IF react.i = Len(react.events)
                                     THEN "done" ELSE "reacted",
                      !.result = IF ~ok THEN "set_event_state failed"
                                 ELSE IF react.i = Len(react.events)
                                      THEN react.react_result ELSE @]
    /\ UNCHANGED <<srvVars, payVars, sesVars, note, param>>

ReactInit ==
    /\ ServerNew
    /\ mbts = <<>>
    /\ pay = NoPayment
    /\ ses = NoSession
    /\ call = NoCall
    /\ note = NoNote
    /\ param = NoParam
    /\ react \in [phase : {"called"}, reactor : Reactors,
                   events : EventGroups, i : {0}, sets : {0},
                   ran : {FALSE}, react_result : {"none"},
                   result : {"none"}]

ReactNext == ReactEnter \/ SetReacting \/ RunReactor \/ SetReacted

ReactSpec == ReactInit /\ [][ReactNext]_vars

\* Every event of the group is in one of the states S.
AllIn(events, S) == \A k \in 1..Len(events) : events[k] \in S

\* C36: on a non-empty group whose reactor succeeds, every event is in
\* state Reacting when the reactor runs, no event is Reacted while another
\* is not yet Reacting, and when react returns every event is Reacted and
\* the value returned is Ok.
C36_ReactingThenReacted ==
    /\ react.phase = "reactor" => AllIn(react.events, {"Reacting"})
    /\ (\E k \in 1..Len(react.events) : react.events[k] = "Reacted") =>
          AllIn(react.events, {"Reacting", "Reacted"})
    /\ (react.phase = "done" /\ react.react_result = "Ok") =>
          /\ react.result = "Ok"
          /\ AllIn(react.events, {"Reacted"})

\* C37: a reactor of an unknown name and NOOP_False fail; when the reactor
\* fails react returns the reactor's error and every event of the group is
\* still in state Reacting; on an empty group react returns Ok with no
\* event state set and no reactor run.
C37_ReactorErrorKeepsReacting ==
    /\ (react.ran /\ react.reactor \notin KnownReactors) =>
          /\ react.phase = "done"
          /\ react.result = "No such reactor"
          /\ AllIn(react.events, {"Reacting"})
    /\ (react.ran /\ react.reactor = "NOOP_False") =>
          /\ react.phase = "done"
          /\ react.result = "NOOP_False"
          /\ AllIn(react.events, {"Reacting"})
    /\ (react.ran /\ react.react_result # "Ok") =>
          /\ react.phase = "done"
          /\ react.result = react.react_result
          /\ AllIn(react.events, {"Reacting"})
    /\ react.events = <<>> =>
          /\ react.phase \in {"called", "done"}
          /\ react.phase = "done" => react.result = "Ok"
          /\ ~react.ran
          /\ react.sets = 0

C37_Witness ==
    /\ react.phase = "done"
    /\ react.ran
    /\ react.reactor \notin KnownReactors
    /\ Len(react.events) = 2
    /\ react.result = "No such reactor"

\* The counts a ParamCount admits, as stated.
Admitted(pc) ==
    IF pc.kind = "Any" THEN Counts
    ELSE IF pc.kind = "Zero" THEN {0}
    ELSE IF pc.kind = "Exactly" THEN {pc.a}
    ELSE IF pc.kind = "AtLeast" THEN {c \in Counts : ~(c < pc.a)}
    ELSE pc.a..pc.b

\* C28: matches(pc, count) is true exactly for Any, for Zero with count 0,
\* for Exactly(n) with count n, for AtLeast(n) with count at least n and
\* for Range(lo, hi) with count from lo to hi, both included.
C28_MatchesAsStated ==
    param.phase = "done" =>
        (param.result <=> param.count \in Admitted(param.pc))

\* A count equal to the upper end of a proper range was matched.
C28_Witness ==
    /\ param.phase = "done"
    /\ param.pc.kind = "Range"
    /\ param.pc.a < param.pc.b
    /\ param.count = param.pc.b
    /\ param.result

\* C26: an untargeted payment for a patron without transactions is answered
\* as failed with the message "No transactions to pay", which is not the
\* Overpayment message; the allocation is empty and nothing is applied.
C26_NothingToPay ==
    (Untargeted /\ get_patron_xacts(pay.req.patron_barcode) = <<>>) =>
        /\ pay.outcome = "response"
        /\ pay.response.ok = "0"
        /\ pay.response.AF = "No transactions to pay"
        /\ pay.response.AF # "Overpayment not allowed"
        /\ pay.payments = <<>>
        /\ ~pay.applied
        /\ ~pay.written

\* Such a payment was handled while the backend held transactions of
\* another patron.
C26_Witness ==
    /\ Untargeted
    /\ get_patron_xacts(pay.req.patron_barcode) = <<>>
    /\ mbts # <<>>
    /\ pay.outcome = "response"

\* The patron's transactions that owe something.
OwingXacts(usr) ==
    SelectSeq(get_patron_xacts(usr), LAMBDA x : x.balance_owed > 0)

\* C31: in an untargeted payment only transactions that owe more than zero
\* take part: no entry of the allocation list is for a transaction owing
\* zero or less, and list and remaining amount are those of the walk over
\* the owing transactions alone.
C31_OnlyOwingXacts ==
    Untargeted =>
        LET owing == WalkXacts(OwingXacts(pay.req.patron_barcode),
                               pay.req.pay_amount, <<>>)
        IN  /\ \A i \in DOMAIN pay.payments :
                   mbts[pay.payments[i][1]].balance_owed > 0
            /\ pay.payments = owing.payments
            /\ pay.amount_remaining = owing.amount_remaining

C33_NoCardOrBadXactId ==
    (pay.phase = "done"
        /\ pay.fault \notin {"authtoken", "field", "card_search"}
        /\ (pay.req.patron_barcode \notin Patrons
                \/ pay.req.cg.kind = "invalid")) =>
        /\ pay.outcome = "response"
        /\ pay.response.ok = "0"
        /\ pay.path \in {"nocard", "badcg"}
        /\ pay.payments = <<>>
        /\ ~pay.applied
        /\ ~pay.written

\* A request with a non-numeric CG was answered for a patron who has a
\* transaction that the tendered amount would have paid.
C33_Witness ==
    /\ pay.phase = "done"
    /\ pay.fault = "none"
    /\ pay.req.cg.kind = "invalid"
    /\ pay.req.patron_barcode \in Patrons
    /\ OwingXacts(pay.req.patron_barcode) # <<>>
    /\ pay.path = "badcg"
    /\ pay.outcome = "response"

\* C25: an SC status request is answered with the status response (online,
\* checkin and checkout "Y") when the Session holds an account, and without
\* account exactly when sc_status_before_login is on; handling it leaves
\* the account of the Session as it was.
C25_ScStatus ==
    [][(ses.pc = "handling" /\ ses.req.code = "99") =>
           /\ ses'.account = ses.account
           /\ IF ses.account # "none" \/ ses.sc_status_before_login
              THEN /\ ses'.pc = "sending"
                   /\ ses'.resp.code = "98"
                   /\ ses'.resp.online_status = "Y"
                   /\ ses'.resp.checkin_ok = "Y"
                   /\ ses'.resp.checkout_ok = "Y"
              ELSE ses'.resp = NoResponse]_vars

\* An SC status request was answered on a Session without account.
C25_Witness ==
    /\ ses.pc = "sending"
    /\ ses.req.code = "99"
    /\ ses.resp.code = "98"
    /\ ses.account = "none"
    /\ ses.sc_status_before_login

(***************************************************************************)
(* Properties of the Dispatcher's drain (under Spec).                      *)
(***************************************************************************)
\* One turn of the accept loop is taken in this step.
AcceptTurn == pc_srv = "accepting" /\ sesid' = sesid + 1

\* The turn's drain takes this event off the channel.
Drains(ev) == AcceptTurn /\ from_monitor # <<>> /\ Head(from_monitor) = ev

\* C21: once the Monitor worker has died, the next accept/drain turn (with
\* nothing left on the channel) sets the shutdown signal.
C21_MonitorDeathShutsDown ==
    [][(AcceptTurn /\ monitor = "exited" /\ from_monitor = <<>>)
           => shutdown']_vars

\* C22: a turn that drains a Shutdown event sets the shutdown signal and
\* the Dispatcher leaves its accept loop for the join at the end of it.
C22_ShutdownEventDrained ==
    [][Drains("Shutdown") => (shutdown' /\ pc_srv' = "joining")]_vars

\* The accounts the Monitor's events name: the one AddAccount brings, the
\* one DisableAccount takes away.
AddedAccount == "sip-user3"
DisabledAccount == "sip-user2"

\* The table an event asks for.
TableAfter(ev, table) ==
    CASE ev = "AddAccount" -> table \cup {AddedAccount}
      [] ev = "DisableAccount" -> table \ {DisabledAccount}
      [] OTHER -> table

\* C23: a turn that drains an AddAccount or a DisableAccount event replaces
\* the account table by the complete changed table (the old one until then,
\* never a mixture) and the Dispatcher keeps running.
C23_TableSwapped ==
    [][(Drains("AddAccount") \/ Drains("DisableAccount")) =>
           /\ accounts' = TableAfter(Head(from_monitor), accounts)
           /\ pc_srv' \in {"accepting", "joining"}]_vars

\* handle_login finds the account of this username in the table.
LoginFinds(table, username) == username \in table

\* C30: a Login is checked against the table as the Dispatcher's drain
\* left it: once DisableAccount(u) was drained a Login for u finds no
\* account, once AddAccount(a) was drained a Login for a finds a's.
C30_LoginSeesLiveTable ==
    [][/\ Drains("DisableAccount") => ~LoginFinds(accounts', DisabledAccount)
       /\ Drains("AddAccount") => LoginFinds(accounts', AddedAccount)]_vars

C35_ShutdownMonotonic ==
    ~shutdown /\ [][shutdown => shutdown']_vars

\* The signal is set and the Dispatcher has since run a drain and left its
\* accept loop.
C35_Witness ==
    /\ shutdown
    /\ pc_srv \in {"joining", "returned"}
    /\ sesid >= 1

\* C24: a turn whose accept failed spawns no worker, still drains the
\* channel and, unless the shutdown signal is set, goes on accepting.
C24_FailedAcceptGoesOn ==
    [][(AcceptTurn /\ ses_pc'[sesid'] = "accepterr") =>
           /\ pool_queue' = pool_queue
           /\ \A s \in Conns : ses_pc'[s] \in Live => ses_pc[s] \in Live
           /\ from_monitor # <<>> => from_monitor' = Tail(from_monitor)
           /\ pc_srv' = IF shutdown' THEN "joining" ELSE "accepting"]_vars

\* C29: once the shutdown signal is set, serve() leaves its accept loop and
\* returns, whether or not another connection or terminal message arrives
\* (a Dispatcher that panicked in the drain is not held against it).
C29_ShutdownReturns == shutdown ~> (pc_srv \in {"returned", "panicked"})

=============================================================================
